---- MODULE Spec2Model ----
(***************************************************************************)
(* Model of src/App.tsx (DishListApp): a form of four fields, an ordered   *)
(* collection of dishes, and the view derived from it (a course-ordered    *)
(* list and per-course counts).  Every handler runs to completion on the   *)
(* UI thread, so each handler is one action.  Text is a sequence of        *)
(* one-character strings, so that trim() is computed, not assumed.         *)
(***************************************************************************)
EXTENDS Integers, Sequences, FiniteSets

VARIABLES dishName, description, course, price, dishes, now, hist

vars == <<dishName, description, course, price, dishes, now, hist>>

-----------------------------------------------------------------------------
(* Bounds of the model *)

\* the collection holds at most MaxDishes dishes
MaxDishes == 2

\* Date.now() reads a value in 0..MaxClock and never goes backwards
MaxClock == 1

\* what the user can type into the name, description and price inputs:
\* nothing, only whitespace, and text padded with whitespace
NameTexts == { <<>>, <<" ">>, <<" ", "a", " ">> }

DescriptionTexts == { <<>>, <<" ", "d">> }

PriceTexts == { <<>>, <<" ">>, <<"5", " ">> }

-----------------------------------------------------------------------------
(* Library functions used by the component *)

WhiteSpace == { " ", "\t", "\n", "\r" }

RECURSIVE trimStart(_)
trimStart(s) ==
    IF s # <<>> /\ Head(s) \in WhiteSpace THEN trimStart(Tail(s)) ELSE s

RECURSIVE trimEnd(_)
trimEnd(s) ==
    IF s # <<>> /\ s[Len(s)] \in WhiteSpace
    THEN trimEnd(SubSeq(s, 1, Len(s) - 1))
    ELSE s

\* String.prototype.trim
trim(s) == trimEnd(trimStart(s))

\* Number.prototype.toString on a non-negative integer: its decimal digits
RECURSIVE toString(_)
toString(n) ==
    IF n < 10 THEN <<n>> ELSE Append(toString(n \div 10), n % 10)

\* Array.prototype.indexOf, 0-based, -1 when absent
indexOf(arr, x) ==
    IF \E i \in 1..Len(arr) : arr[i] = x
    THEN (CHOOSE i \in 1..Len(arr) :
            arr[i] = x /\ \A j \in 1..(i - 1) : arr[j] # x) - 1
    ELSE -1

-----------------------------------------------------------------------------
(* The component's constants *)

\* const order
order == <<"Starter", "Main Course", "Dessert", "Drink">>

\* the picker with a fifth item that the counts and the order do not know
PickerValuesWithSide == { "Starter", "Main Course", "Dessert", "Drink", "Side" }

\* the values of the four Picker.Item elements
PickerValues == { "Starter", "Main Course", "Dessert", "Drink" }

\* !s on a string: true exactly for the empty string
Falsy(s) == s = <<>>

-----------------------------------------------------------------------------
(* History: the handler that ran last, with the state it started from *)

Snapshot(op, id) ==
    [op |-> op, id |-> id, dishName |-> dishName, description |-> description,
     course |-> course, price |-> price, dishes |-> dishes]

NoSnapshot(op) ==
    [op |-> op, id |-> <<>>, dishName |-> <<>>, description |-> <<>>,
     course |-> "Starter", price |-> <<>>, dishes |-> <<>>]

-----------------------------------------------------------------------------
(* State after construction: the useState defaults *)

Init ==
    /\ dishName = <<>>
    /\ description = <<>>
    /\ course = "Starter"
    /\ price = <<>>
    /\ dishes = <<>>
    /\ now \in 0..MaxClock
    /\ hist = NoSnapshot("init")

-----------------------------------------------------------------------------
(* Field edits: onChangeText / onValueChange *)

setDishName(text) ==
    /\ dishName' = text
    /\ hist' = NoSnapshot("edit")
    /\ UNCHANGED <<description, course, price, dishes, now>>

setDescription(text) ==
    /\ description' = text
    /\ hist' = NoSnapshot("edit")
    /\ UNCHANGED <<dishName, course, price, dishes, now>>

setCourse(value) ==
    /\ course' = value
    /\ hist' = NoSnapshot("edit")
    /\ UNCHANGED <<dishName, description, price, dishes, now>>

setPrice(text) ==
    /\ price' = text
    /\ hist' = NoSnapshot("edit")
    /\ UNCHANGED <<dishName, description, course, dishes, now>>

-----------------------------------------------------------------------------
(* addDish *)

\* the early return of addDish
Rejects(n, p) == Falsy(n) \/ Falsy(p)

\* newDish with the name stored as typed
newDishUntrimmed(t, n, d, c, p) ==
    [id |-> toString(t), name |-> n, description |-> trim(d),
     course |-> c, price |-> trim(p)]

\* const newDish = { id, name, description, course, price }
newDish(t, n, d, c, p) ==
    [id |-> toString(t), name |-> trim(n), description |-> trim(d),
     course |-> c, price |-> trim(p)]

\* the reset without setCourse("Starter")
ResetFormKeepsCourse ==
    /\ dishName' = <<>>
    /\ description' = <<>>
    /\ course' = course
    /\ price' = <<>>

\* // Reset form
ResetForm ==
    /\ dishName' = <<>>
    /\ description' = <<>>
    /\ course' = "Starter"
    /\ price' = <<>>

\* Date.now() is read only past the early return; the model stops accepting
\* dishes once the collection holds MaxDishes of them
addDish ==
    IF Rejects(dishName, price)
    THEN /\ hist' = Snapshot("addDish", <<>>)
         /\ UNCHANGED <<dishName, description, course, price, dishes, now>>
    ELSE /\ Len(dishes) < MaxDishes
         /\ \E t \in now..MaxClock :
            /\ now' = t
            /\ dishes' = Append(dishes, newDish(t, dishName, description, course, price))
            /\ ResetForm
            /\ hist' = Snapshot("addDish", toString(t))

-----------------------------------------------------------------------------
(* removeDish *)

\* removal by splice(findIndex(...), 1): an index of -1 removes the last dish
SpliceAtIndex(prev, id) ==
    IF \E i \in 1..Len(prev) : prev[i].id = id
    THEN LET k == CHOOSE i \in 1..Len(prev) :
                    prev[i].id = id /\ \A j \in 1..(i - 1) : prev[j].id # id
         IN  SubSeq(prev, 1, k - 1) \o SubSeq(prev, k + 1, Len(prev))
    ELSE SubSeq(prev, 1, Len(prev) - 1)

\* prev.filter((dish) => dish.id !== id)
FilterOut(prev, id) == SelectSeq(prev, LAMBDA dish : dish.id # id)

removeDish(id) ==
    /\ dishes' = FilterOut(dishes, id)
    /\ hist' = Snapshot("removeDish", id)
    /\ UNCHANGED <<dishName, description, course, price, now>>

-----------------------------------------------------------------------------
(* The derived view: useMemo over dishes *)

\* (a, b) => order.indexOf(a.course) - order.indexOf(b.course)
compare(a, b) == indexOf(order, a.course) - indexOf(order, b.course)

\* an unstable sort: an element goes before the elements it compares equal to
InsertBeforeEqual(sorted, x) ==
    LET k == Cardinality({ i \in 1..Len(sorted) :
                             \A j \in 1..i : compare(sorted[j], x) < 0 })
    IN  SubSeq(sorted, 1, k) \o <<x>> \o SubSeq(sorted, k + 1, Len(sorted))

\* Array.prototype.sort is stable: an element goes after every element already
\* placed that does not compare greater than it
Insert(sorted, x) ==
    LET k == Cardinality({ i \in 1..Len(sorted) :
                             \A j \in 1..i : compare(sorted[j], x) <= 0 })
    IN  SubSeq(sorted, 1, k) \o <<x>> \o SubSeq(sorted, k + 1, Len(sorted))

RECURSIVE sort(_)
sort(arr) ==
    IF arr = <<>> THEN <<>>
    ELSE Insert(sort(SubSeq(arr, 1, Len(arr) - 1)), arr[Len(arr)])

\* const sorted = [...dishes].sort(...)
sortedDishes == sort(dishes)

\* counts[course]++ : the form's selected course instead of the dish's
IncrementSelected(counts, dish) ==
    IF course \in DOMAIN counts
    THEN [counts EXCEPT ![course] = @ + 1]
    ELSE counts

\* counts[dish.course]++ ; a key that is not one of the four is never displayed
Increment(counts, dish) ==
    IF dish.course \in DOMAIN counts
    THEN [counts EXCEPT ![dish.course] = @ + 1]
    ELSE counts

\* sorted.forEach(...) over the counts object that starts at zero
RECURSIVE forEachCount(_, _)
forEachCount(sorted, counts) ==
    IF sorted = <<>> THEN counts
    ELSE forEachCount(Tail(sorted), Increment(counts, Head(sorted)))

\* const counts = { Starter: 0, "Main Course": 0, Dessert: 0, Drink: 0 }
counts0 == [c \in { "Starter", "Main Course", "Dessert", "Drink" } |-> 0]

categoryCounts == forEachCount(sortedDishes, counts0)

\* const totalDishes = dishes.length
totalDishes == Len(dishes)

-----------------------------------------------------------------------------

Next ==
    \/ \E text \in NameTexts : setDishName(text)
    \/ \E text \in DescriptionTexts : setDescription(text)
    \/ \E value \in PickerValues : setCourse(value)
    \/ \E text \in PriceTexts : setPrice(text)
    \/ addDish
    \/ \E id \in { toString(t) : t \in 0..MaxClock } : removeDish(id)

Spec == Init /\ [][Next]_vars

-----------------------------------------------------------------------------
(* Vocabulary of the properties *)

FourCourses == { "Starter", "Main Course", "Dessert", "Drink" }

\* position of a course in the display order Starter, Main Course, Dessert, Drink
Rank(c) ==
    CASE c = "Starter" -> 1
      [] c = "Main Course" -> 2
      [] c = "Dessert" -> 3
      [] c = "Drink" -> 4
      [] OTHER -> 0

\* the form is as the last handler found it
FormAsBefore ==
    /\ dishName = hist.dishName
    /\ description = hist.description
    /\ course = hist.course
    /\ price = hist.price

\* the last handler was removeDish(id) and id named k dishes of the collection
Matches == { i \in 1..Len(hist.dishes) : hist.dishes[i].id = hist.id }

\* the last handler was addDish and it appended a dish
Appended == hist.op = "addDish" /\ Len(dishes) = Len(hist.dishes) + 1

Permutations(n) ==
    { f \in [1..n -> 1..n] : \A i, j \in 1..n : f[i] = f[j] => i = j }

-----------------------------------------------------------------------------
(* Properties *)

\* C1: addDish with a name or a price that is empty after trimming changes
\* neither the collection nor the four form fields.
C1_BlankSubmitIsNoOp ==
    (hist.op = "addDish"
        /\ (trim(hist.dishName) = <<>> \/ trim(hist.price) = <<>>))
    => (dishes = hist.dishes /\ FormAsBefore)

\* C2: no two dishes of the collection have the same identifier.
C2_IdsUnique ==
    \A i, j \in 1..Len(dishes) : dishes[i].id = dishes[j].id => i = j

\* C3: removeDish with the identifier of a dish of the collection removes
\* exactly one dish: the identifier is gone and the other dishes stay, unmodified
\* and in their order.
C3_RemoveTakesExactlyOne ==
    (hist.op = "removeDish" /\ Matches # {})
    => /\ Len(dishes) = Len(hist.dishes) - 1
       /\ \A i \in 1..Len(dishes) : dishes[i].id # hist.id
       /\ \E k \in 1..Len(hist.dishes) :
            dishes = SubSeq(hist.dishes, 1, k - 1)
                        \o SubSeq(hist.dishes, k + 1, Len(hist.dishes))

\* C4: every dish of the collection has a non-empty name and a non-empty price.
C4_NameAndPriceNonEmpty ==
    \A i \in 1..Len(dishes) : dishes[i].name # <<>> /\ dishes[i].price # <<>>

\* C5: addDish with a name and a price that are non-empty after trimming appends
\* exactly one dish at the end and leaves the stored dishes as they were; the new
\* dish carries the trimmed name, description and price and the selected course.
C5_SubmitAppendsTrimmedDish ==
    (hist.op = "addDish"
        /\ trim(hist.dishName) # <<>> /\ trim(hist.price) # <<>>)
    => /\ Len(dishes) = Len(hist.dishes) + 1
       /\ SubSeq(dishes, 1, Len(hist.dishes)) = hist.dishes
       /\ LET d == dishes[Len(dishes)]
          IN  /\ d.name = trim(hist.dishName)
              /\ d.description = trim(hist.description)
              /\ d.price = trim(hist.price)
              /\ d.course = hist.course

\* C5 witness: a padded name, description and price were submitted with a course
\* other than the default, onto a collection that already held a dish.
C5_Witness ==
    /\ Appended
    /\ hist.dishes # <<>>
    /\ hist.dishName = <<" ", "a", " ">>
    /\ hist.description = <<" ", "d">>
    /\ hist.price = <<"5", " ">>
    /\ hist.course = "Dessert"
    /\ dishes[Len(dishes)].name = <<"a">>

\* C6: the derived view is a rearrangement of the collection in which the
\* courses come in the order Starter, Main Course, Dessert, Drink and dishes of
\* one course keep their insertion order.
C6_ViewOrderedAndStable ==
    /\ Len(sortedDishes) = Len(dishes)
    /\ \E p \in Permutations(Len(dishes)) :
         /\ \A i \in 1..Len(dishes) : sortedDishes[i] = dishes[p[i]]
         /\ \A i, j \in 1..Len(dishes) :
              i < j => \/ Rank(sortedDishes[i].course) < Rank(sortedDishes[j].course)
                       \/ /\ sortedDishes[i].course = sortedDishes[j].course
                          /\ p[i] < p[j]

\* C6 witness: the view moves a later Starter in front of an earlier Drink.
C6_Witness ==
    /\ Len(dishes) = 2
    /\ dishes[1].course = "Drink"
    /\ dishes[2].course = "Starter"
    /\ sortedDishes = <<dishes[2], dishes[1]>>

\* C7: each of the four displayed counts is the number of dishes of that course
\* in the collection.
C7_CountsMatchCollection ==
    \A c \in FourCourses :
        categoryCounts[c] = Cardinality({ i \in 1..Len(dishes) : dishes[i].course = c })

\* C7 witness: two Main Course dishes are counted while the form selects Dessert.
C7_Witness ==
    /\ Len(dishes) = 2
    /\ \A i \in 1..2 : dishes[i].course = "Main Course"
    /\ course = "Dessert"
    /\ categoryCounts["Main Course"] = 2

\* C8: right after an addDish that appended a dish the four fields hold their
\* defaults: empty name, empty description, course Starter, empty price.
C8_FormResetAfterSubmit ==
    Appended
    => /\ dishName = <<>>
       /\ description = <<>>
       /\ course = "Starter"
       /\ price = <<>>

\* C8 witness: the submitted form had every field away from its default.
C8_Witness ==
    /\ Appended
    /\ hist.dishName # <<>>
    /\ hist.description # <<>>
    /\ hist.course = "Drink"
    /\ hist.price # <<>>

\* C9: removeDish with an identifier that no dish of the collection carries leaves
\* the collection, the form, the derived view and the counts as they were.
C9_RemoveAbsentIsNoOp ==
    (hist.op = "removeDish" /\ Matches = {})
    => /\ dishes = hist.dishes
       /\ FormAsBefore
       /\ sortedDishes = sort(hist.dishes)
       /\ categoryCounts = forEachCount(sort(hist.dishes), counts0)
       /\ totalDishes = Len(hist.dishes)

\* C9 witness: an absent identifier was removed from a collection of two dishes
\* while the form was filled in.
C9_Witness ==
    /\ hist.op = "removeDish"
    /\ Matches = {}
    /\ Len(hist.dishes) = 2
    /\ dishName # <<>>
    /\ price # <<>>

\* C10: the displayed total is the size of the collection, the length of the
\* derived view and the sum of the four counts, and every stored course is one of
\* the four.
C10_TotalsAgree ==
    /\ totalDishes = Len(dishes)
    /\ totalDishes = Len(sortedDishes)
    /\ totalDishes = categoryCounts["Starter"] + categoryCounts["Main Course"]
                        + categoryCounts["Dessert"] + categoryCounts["Drink"]
    /\ \A i \in 1..Len(dishes) : dishes[i].course \in FourCourses

\* C10 witness: the total is 2 with two dishes of different courses.
C10_Witness ==
    /\ totalDishes = 2
    /\ dishes[1].course = "Dessert"
    /\ dishes[2].course = "Main Course"

====
